---- MODULE Spec2Model ----
(***************************************************************************)
(* A model of the bit field library (namespace bf): bit_mask and           *)
(* extract_bits of bits.hpp, bit_field::get / bit_field::set of            *)
(* bit_field.hpp applied to one storage word, the compile-time counter of  *)
(* counter.hpp, and the classes and accessors of bit_field_builder.hpp.    *)
(*                                                                         *)
(* Values are bit patterns: a value of a type of width w is the set of the *)
(* positions (0 = least significant) of its bits that are 1, a subset of   *)
(* 0 .. w-1.  Signed types are two's complement, so a negative value is a  *)
(* pattern with bit w-1 set.  A type is its width and its signedness; an   *)
(* enum is represented by its underlying type and std::byte by unsigned    *)
(* char, which is how the library itself treats them (TSourceUnderlying,   *)
(* TDestinationUnderlying, TUnderlying).                                   *)
(***************************************************************************)
EXTENDS Integers, FiniteSets, Sequences, TLC

VARIABLES
    field,      \* the bit_field<NBits, NOffset, TDefaultConfig> in use
    TStorage,   \* the type of the storage word
    into,       \* the storage word
    last,       \* the last call of get or set: its arguments and its outcome
    ex,         \* the last direct call of extract_bits / bit_mask
    layout,     \* the class derived from bit_field_builder, as declared so far
    scope,      \* a class scope in which the counter macros are used
    race        \* two calls of set on one storage word, each in its own thread

vars == <<field, TStorage, into, last, ex, layout, scope, race>>

----------------------------------------------------------------------------
(* Scalar types *)

U8  == [w |-> 8,  s |-> FALSE]
U16 == [w |-> 16, s |-> FALSE]
U32 == [w |-> 32, s |-> FALSE]
U64 == [w |-> 64, s |-> FALSE]
I8  == [w |-> 8,  s |-> TRUE]
I16 == [w |-> 16, s |-> TRUE]
I32 == [w |-> 32, s |-> TRUE]
I64 == [w |-> 64, s |-> TRUE]

\* bit_field_config<void>: "use the default"
void == [w |-> 0, s |-> FALSE]

\* the type int, in which 1 << i is evaluated and to which narrower operands
\* are promoted
IntWidth == 32
int == [w |-> IntWidth, s |-> TRUE]

\* bits<T> = sizeof(T) * CHAR_BIT
bits(T) == T.w

AllBits(T) == 0 .. (bits(T) - 1)

\* integral promotion of an operand of type T
Promote(T) == IF bits(T) < IntWidth THEN int ELSE T

\* static_cast<D>(x) for x of type S: the value modulo 2^bits(D); a widening
\* conversion of a negative value replicates the sign bit
Convert(x, S, D) ==
    IF bits(D) <= bits(S)
    THEN {i \in x : i < bits(D)}
    ELSE IF S.s /\ (bits(S) - 1) \in x
         THEN x \cup (bits(S) .. (bits(D) - 1))
         ELSE x

\* the value of an expression that has one: the element of a singleton
defined_value(outcomes) == CHOOSE v \in outcomes : TRUE

\* y of type P, already promoted, with its bits moved n places down,
\* 0 <= n <= bits(P); the shift of a negative value is arithmetic
shifted_right(y, P, n) ==
    {i - n : i \in {j \in y : j >= n}}
        \cup (IF P.s /\ (bits(P) - 1) \in y
              THEN (bits(P) - n) .. (bits(P) - 1)
              ELSE {})

\* x >> n is defined: n is less than the width of the promoted operand
shift_defined(T, n) == n < bits(Promote(T))

\* x >> n for x of type T, n >= 0: the values, of type Promote(T), that a
\* build gives the expression.  The operand is promoted.  A count below the
\* width of the promoted operand gives one value.  A count of the width or
\* more is undefined behaviour: the builds give the operand shifted by the
\* count modulo the width (the shift instruction of the processor) or with
\* every bit shifted out (the compiler folding the shift).
ShiftRight(x, T, n) ==
    LET P == Promote(T)
        y == Convert(x, T, P)
    IN  IF shift_defined(T, n)
        THEN {shifted_right(y, P, n)}
        ELSE {shifted_right(y, P, n % bits(P)), shifted_right(y, P, bits(P))}

\* x << n for x of type T: the operand is promoted; bits shifted past the
\* width of the promoted type are lost.  The result has type Promote(T).
ShiftLeft(x, T, n) ==
    LET P == Promote(T)
        y == Convert(x, T, P)
    IN  {i + n : i \in {j \in y : j + n < bits(P)}}

----------------------------------------------------------------------------
(* bits.hpp *)

\* INT_MAX of <climits>, 2^31 - 1
INT_MAX == 2147483647

\* The template arguments of bit_mask are of type unsigned, which is modelled
\* modulo 2^32 by the representative of each value in -2^31 .. 2^31 - 1: -k
\* stands for 2^32 - k.  a + b, both of type unsigned: the representative of
\* the sum modulo 2^32
unsigned_sum(a, b) ==
    IF a >= 0 /\ b >= 0
    THEN IF a > INT_MAX - b
         THEN ((a - INT_MAX) - 1) + ((b - INT_MAX) - 1)
         ELSE a + b
    ELSE IF a < 0 /\ b < 0
         THEN IF (a + INT_MAX) + 1 > INT_MAX - ((b + INT_MAX) + 1)
              THEN a + b
              ELSE ((a + INT_MAX) + 1) + ((b + INT_MAX) + 1)
         ELSE a + b

\* the values of i in "for (unsigned i = NStart; i < NStart + NCount; ++i)"
\* for a sum that the requires-clause accepted: none when the sum wrapped to
\* less than NStart
bit_mask_loop(NStart, NCount) ==
    LET end == unsigned_sum(NStart, NCount)
    IN  IF NStart < 0 \/ end <= 0 THEN {} ELSE NStart .. (end - 1)

\* The requires-clause of bit_mask, whose sum is an unsigned sum that wraps at
\* 2^32 before it is compared with bits<T>, and the constant evaluation of
\* its initializer: 1 << i is an int shift, which is not a constant
\* expression for i >= 32, so a mask whose loop reaches such an i does not
\* compile.
bit_mask_ok(T, NStart, NCount) ==
    /\ NCount # 0
    /\ unsigned_sum(NStart, NCount) >= 0
    /\ unsigned_sum(NStart, NCount) <= bits(T)
    /\ \A i \in bit_mask_loop(NStart, NCount) : i < IntWidth

\* bit_mask<T, NStart, NCount>: value |= static_cast<T>(1 << i) for each i
bit_mask(T, NStart, NCount) ==
    UNION {Convert({i}, int, T) : i \in bit_mask_loop(NStart, NCount)}

\* std::size_t is modelled modulo 2^64 by the representative of each value
\* that is nearest to 0: -k stands for 2^64 - k, so that the sum of two
\* representatives is the representative of the wrapped sum.  a >= b, both
\* of type std::size_t:
size_t_ge(a, b) == IF (a < 0) = (b < 0) THEN a >= b ELSE a < 0

\* The requires-clause of extract_bits, whose sums are std::size_t sums, and
\* the instantiation of its mask, whose NStart is an unsigned: a source offset
\* 2^64 - k (NSourceOffset < 0 here) does not fit and is a narrowing
\* conversion
extract_bits_ok(NBits, NSourceOffset, TSource, TDestination, NDestinationOffset) ==
    /\ NBits > 0
    /\ size_t_ge(bits(TSource), NBits + NSourceOffset)
    /\ size_t_ge(bits(TDestination), NBits + NDestinationOffset)
    /\ NSourceOffset >= 0
    /\ bit_mask_ok(TSource, NSourceOffset, NBits)

\* extract_bits with the mask taken at the destination offset instead of the
\* source offset
extract_bits_masks_destination(NBits, NSourceOffset, TSource, TDestination, NDestinationOffset, BSkipMask, source) ==
    LET wrong_mask == bit_mask(TSource, NDestinationOffset, NBits)
        shift == NSourceOffset - NDestinationOffset
        source_bits == IF ~BSkipMask THEN source \cap wrong_mask ELSE source
    IN  IF shift = 0
        THEN {Convert(source_bits, TSource, TDestination)}
        ELSE IF shift > 0
        THEN {Convert(r, Promote(TSource), TDestination) :
                 r \in ShiftRight(source_bits, TSource, shift)
                          \cup (IF shift_defined(TSource, shift)
                                THEN {}
                                ELSE ShiftRight(source, TSource, shift))}
        ELSE {Convert(ShiftLeft(Convert(source_bits, TSource, TDestination),
                                TDestination, -shift),
                      Promote(TDestination), TDestination)}

\* extract_bits<...>(source): the values, of type TDestination, that a build
\* returns.  shift is the difference of the offsets as ints, 2^64 - k being
\* -k.  A left shift moves by less than the width of TDestination and a
\* right shift by the width of TSource at most; by the width of a TSource as
\* wide as int the right shift is undefined behaviour, and the builds return
\* what they give source_bits >> shift, or that with the mask dropped
\* (the optimizer taking the shift for a defined one).  These are the calls
\* evaluated when the program runs; as a constant expression such a call is
\* not accepted.
extract_bits(NBits, NSourceOffset, TSource, TDestination, NDestinationOffset, BSkipMask, source) ==
    LET mask == bit_mask(TSource, NSourceOffset, NBits)
        shift == NSourceOffset - NDestinationOffset
        source_bits == IF ~BSkipMask THEN source \cap mask ELSE source
    IN  IF shift = 0
        THEN {Convert(source_bits, TSource, TDestination)}
        ELSE IF shift > 0
        THEN {Convert(r, Promote(TSource), TDestination) :
                 r \in ShiftRight(source_bits, TSource, shift)
                          \cup (IF shift_defined(TSource, shift)
                                THEN {}
                                ELSE ShiftRight(source, TSource, shift))}
        ELSE {Convert(ShiftLeft(Convert(source_bits, TSource, TDestination),
                                TDestination, -shift),
                      Promote(TDestination), TDestination)}

----------------------------------------------------------------------------
(* bit_field.hpp *)

\* bit_field_assignment_strategy
unchecked == "unchecked"
mask == "mask"
return_bool == "return_bool"
exception == "exception"
strategy_no_override == "no_override"

Strategies == {unchecked, mask, return_bool, exception}

\* BIT_FIELD_DEFAULT_STRATEGY (config.hpp)
BIT_FIELD_DEFAULT_STRATEGY == mask

\* The offset sentinels: the two largest std::size_t values, 2^64 - 1 and
\* 2^64 - 2
no_override == -1
no_shift == no_override - 1

\* bit_field_config<TBitFieldType>{ .offset, .strategy }
bit_field_config(type, offset, strategy) ==
    [type |-> type, offset |-> offset, strategy |-> strategy]

\* effective_offset with the default of the field taking precedence over the
\* configuration of the call
effective_offset_field_first(f, TConfig) ==
    IF f.default_config.offset = no_override
    THEN IF TConfig.offset = no_override
         THEN 0
         ELSE IF TConfig.offset = no_shift THEN f.offset ELSE TConfig.offset
    ELSE IF f.default_config.offset = no_shift
         THEN f.offset
         ELSE f.default_config.offset

\* bit_field<...>::effective_offset<TConfig>
effective_offset(f, TConfig) ==
    IF TConfig.offset = no_override
    THEN IF f.default_config.offset = no_override
         THEN 0
         ELSE IF f.default_config.offset = no_shift
              THEN f.offset
              ELSE f.default_config.offset
    ELSE IF TConfig.offset = no_shift
         THEN f.offset
         ELSE TConfig.offset

\* bit_field<...>::effective_strategy<TConfig>
effective_strategy(f, TConfig) ==
    IF TConfig.strategy = strategy_no_override
    THEN IF f.default_config.strategy = strategy_no_override
         THEN BIT_FIELD_DEFAULT_STRATEGY
         ELSE f.default_config.strategy
    ELSE TConfig.strategy

\* bit_field<...>::effective_storage<TConfig, TStorage>
effective_storage(f, TConfig, T) ==
    IF TConfig.type = void
    THEN IF f.default_config.type = void THEN T ELSE f.default_config.type
    ELSE TConfig.type

\* get<TConfig>(value) without its static_assert
get_ok_unasserted(f, TConfig, T) ==
    extract_bits_ok(f.bits, f.offset, T, effective_storage(f, TConfig, T), effective_offset(f, TConfig))

\* get<TConfig>(value) compiles: its static_assert and the constraints of
\* the extract_bits it instantiates
get_ok(f, TConfig, T) ==
    /\ TConfig.strategy = strategy_no_override
    /\ extract_bits_ok(f.bits, f.offset, T, effective_storage(f, TConfig, T), effective_offset(f, TConfig))

\* bit_field<...>::get<TConfig>(value), value of type T: the values a build
\* returns, those of the extract_bits it forwards to
get(f, TConfig, T, value) ==
    extract_bits(f.bits, f.offset, T, effective_storage(f, TConfig, T), effective_offset(f, TConfig), FALSE, value)

\* set<TConfig>(into, value) compiles: its static_assert, the mask of the
\* field in the storage type (bit_mask<TStorage, offset, bits>, whose unsigned
\* NStart a field offset of 2^64 - k does not fit), the extract_bits it
\* instantiates and, for the checked strategies, the mask of the value type
set_ok(f, TConfig, TS, TValue) ==
    /\ TConfig.type = void
    /\ f.offset >= 0
    /\ bit_mask_ok(TS, f.offset, f.bits)
    /\ extract_bits_ok(f.bits, effective_offset(f, TConfig), TValue, TS, f.offset)
    /\ effective_strategy(f, TConfig) \in Strategies

\* set_helper toggling the moved bits in "into" (^=) instead of clearing the
\* field and ORing them in
set_helper_toggles(f, TConfig, TS, TValue, skip_mask, old, value) ==
    LET moved == defined_value(extract_bits(f.bits, effective_offset(f, TConfig), TValue, TS,
                                            f.offset, skip_mask, value))
    IN  (old \ moved) \cup (moved \ old)

\* the lambda set_helper of set_impl: the new value of "into".  Both offsets
\* of its extract_bits fit an unsigned, so its shift is less than the width
\* of TValue and it has one value.
set_helper(f, TConfig, TS, TValue, skip_mask, old, value) ==
    (old \ bit_mask(TS, f.offset, f.bits))
        \cup defined_value(extract_bits(f.bits, effective_offset(f, TConfig), TValue, TS,
                                        f.offset, skip_mask, value))

\* the assignment of set_helper applied to the word in memory at the time of
\* the write instead of the word read
set_helper_write_in_place(f, TConfig, TS, TValue, skip_mask, read, current, value) ==
    set_helper(f, TConfig, TS, TValue, skip_mask, current, value)

\* the assignment "into = ..." of set_helper: the word it stores, computed
\* from the word it read, whatever the word in memory is by then
set_helper_write(f, TConfig, TS, TValue, skip_mask, read, current, value) ==
    set_helper(f, TConfig, TS, TValue, skip_mask, read, value)

\* the test of the return_bool and exception strategies:
\* static_cast<TUnderlying>(value) & inverse_mask
invalid_bits(f, TConfig, TValue, value) ==
    LET inverse_mask == AllBits(TValue) \ bit_mask(TValue, effective_offset(f, TConfig), f.bits)
    IN  value \cap inverse_mask

\* bit_field<...>::set_impl<TConfig>(into, value): the new storage word, the
\* value returned (return_bool only) and whether bit_field_error is thrown
set_impl(f, TConfig, TS, TValue, old, value) ==
    LET strategy == effective_strategy(f, TConfig)
    IN  IF strategy = unchecked
        THEN [into |-> set_helper(f, TConfig, TS, TValue, TRUE, old, value), ret |-> "void", thrown |-> FALSE]
        ELSE IF strategy = mask
        THEN [into |-> set_helper(f, TConfig, TS, TValue, FALSE, old, value), ret |-> "void", thrown |-> FALSE]
        ELSE IF strategy = return_bool
        THEN IF invalid_bits(f, TConfig, TValue, value) # {}
             THEN [into |-> old, ret |-> "false", thrown |-> FALSE]
             ELSE [into |-> set_helper(f, TConfig, TS, TValue, TRUE, old, value), ret |-> "true", thrown |-> FALSE]
        ELSE IF invalid_bits(f, TConfig, TValue, value) # {}
             THEN [into |-> old, ret |-> "void", thrown |-> TRUE]
             ELSE [into |-> set_helper(f, TConfig, TS, TValue, TRUE, old, value), ret |-> "void", thrown |-> FALSE]

----------------------------------------------------------------------------
(* counter.hpp *)

\* A counter is the set of the overloads name(counter<k>) that the name finds,
\* each represented by its k.

\* COUNTER_INITIALIZE(name, initial_value) declares name(counter<initial_value>)
COUNTER_INITIALIZE(initial_value) == {initial_value}

\* COUNTER_VALUE(name, max_value) is well-formed: the call
\* name(counter<max_value>{}) has a viable overload, counter<max_value>
\* deriving from counter<k> for every k <= max_value and from no other
COUNTER_VALUE_ok(name, max_value) == \E k \in name : k <= max_value

\* COUNTER_VALUE resolving to the viable overload farthest in the derivation
\* chain
COUNTER_VALUE_least(name, max_value) ==
    CHOOSE k \in name : k <= max_value /\ \A j \in name : j <= max_value => k <= j

\* COUNTER_VALUE(name, max_value): the value of the return type of the best
\* viable overload, the one whose parameter is nearest in the derivation chain
COUNTER_VALUE(name, max_value) ==
    CHOOSE k \in name : k <= max_value /\ \A j \in name : j <= max_value => j <= k

\* COUNTER_ADD(name, add_value, max_value): the k of the overload
\* count(counter<k>) that it declares
COUNTER_ADD(name, add_value, max_value) == COUNTER_VALUE(name, max_value) + add_value

\* the names of the functions of a scope: count, and the name c of a
\* counter of the user
CounterNames == {"count", "c"}

\* the function COUNTER_ADD(name, add_value, max_value) declares
COUNTER_ADD_declares(name) == "count"

----------------------------------------------------------------------------
(* bit_field_builder.hpp *)

\* make_config returning the given configuration as it is, not merged
make_config_replaces(TDefaultConfig, TArgs) ==
    IF Len(TArgs) = 0 THEN TDefaultConfig ELSE TArgs[1]

\* detail::make_config<TDefaultConfig, TArgs...>, TArgs a sequence of at most
\* one configuration
make_config(TDefaultConfig, TArgs) ==
    IF Len(TArgs) = 0
    THEN TDefaultConfig
    ELSE LET given_config == TArgs[1]
         IN  bit_field_config(
                 IF given_config.type = void THEN TDefaultConfig.type ELSE given_config.type,
                 IF given_config.offset # no_override THEN given_config.offset ELSE TDefaultConfig.offset,
                 IF given_config.strategy # strategy_no_override THEN given_config.strategy ELSE TDefaultConfig.strategy)

\* what TDerived is: a class, or a class template that derives from
\* bit_field_builder<TDerived<T>, ...>, a base that depends on its parameter
TDerivedKinds == {"class", "class template"}

\* bit_field_builder<TDerived, T, TDefaultConfig> with nothing declared in
\* TDerived.  count holds the overloads of count declared in TDerived, fields
\* the bit_field types declared by BIT_FIELD, in order; decls records the
\* declarations made, in order.
bit_field_builder(TDerived, TDefaultConfig) ==
    [TDerived |-> TDerived, default_config |-> TDefaultConfig, count |-> {}, fields |-> <<>>,
     decls |-> <<>>]

\* the names count, max_field, default_config and raw_value that a macro
\* writes after self are found: in a class template they are members of a
\* dependent base, which an unqualified name does not find
self_ok(l, self) == l.TDerived = "class template" => self # ""

\* in the accessors, name::get<TConfig> and name::set<TConfig> are read as
\* calls of a function template: in a class template name is a dependent type
\* and, with no "template" after "name::", the < is read as less-than, which
\* does not compile when the accessor is instantiated
name_template_ok(l) == l.TDerived # "class template"

\* bit_field_builder::max_field
max_field(T) == bits(T)

\* the overloads that the name count finds in TDerived: those declared in
\* TDerived hide the one COUNTER_INITIALIZE(count, 0) declares in the base
count(l) == IF l.count = {} THEN COUNTER_INITIALIZE(0) ELSE l.count

\* is_complete() compiles
is_complete_ok(l, T) == COUNTER_VALUE_ok(count(l), max_field(T))

\* bit_field_builder::is_complete()
is_complete(l, T) == COUNTER_VALUE(count(l), max_field(T)) = max_field(T)

\* BIT_FIELD_PAD_DEP(self, num_bits) compiles: the counter can be read and the
\* overload COUNTER_ADD declares is not already a member of TDerived
BIT_FIELD_PAD_DEP_ok(l, T, num_bits) ==
    /\ COUNTER_VALUE_ok(count(l), max_field(T))
    /\ COUNTER_ADD(count(l), num_bits, max_field(T)) \notin l.count

\* BIT_FIELD_PAD_DEP(self, num_bits)
BIT_FIELD_PAD_DEP(l, T, num_bits) ==
    [l EXCEPT !.count = @ \cup {COUNTER_ADD(count(l), num_bits, max_field(T))}]

\* BIT_FIELD_DEP without its static_assert
BIT_FIELD_DEP_ok_unasserted(l, T, num_bits) == BIT_FIELD_PAD_DEP_ok(l, T, num_bits)

\* BIT_FIELD_DEP(self, name, num_bits, ...) compiles: its static_assert holds
\* and so does the BIT_FIELD_PAD_DEP it ends with
BIT_FIELD_DEP_ok(l, T, num_bits) ==
    /\ COUNTER_VALUE_ok(count(l), max_field(T))
    /\ COUNTER_VALUE(count(l), max_field(T)) + num_bits <= max_field(T)
    /\ BIT_FIELD_PAD_DEP_ok(l, T, num_bits)

\* BIT_FIELD_DEP reading the offset of the field after the bits of the field
\* were added to the counter
BIT_FIELD_DEP_adds_first(l, T, num_bits, TArgs) ==
    LET name == [bits |-> num_bits,
                 offset |-> COUNTER_ADD(count(l), num_bits, max_field(T)),
                 default_config |-> make_config(l.default_config, TArgs)]
    IN  BIT_FIELD_PAD_DEP([l EXCEPT !.fields = Append(@, name)], T, num_bits)

\* BIT_FIELD_DEP(self, name, num_bits, ...): the field is the next element of
\* fields
BIT_FIELD_DEP(l, T, num_bits, TArgs) ==
    LET name == [bits |-> num_bits,
                 offset |-> COUNTER_VALUE(count(l), max_field(T)),
                 default_config |-> make_config(l.default_config, TArgs)]
    IN  BIT_FIELD_PAD_DEP([l EXCEPT !.fields = Append(@, name)], T, num_bits)

\* get_##name<TConfig>(): name the i-th field of the class, raw_value the
\* storage word of the instance
get_name_ok(l, i, TConfig, T) == name_template_ok(l) /\ get_ok(l.fields[i], TConfig, T)

\* the values a build returns
get_name(l, i, TConfig, T, raw_value) == get(l.fields[i], TConfig, T, raw_value)

\* set_##name<TConfig>(value) compiles: one of its two overloads is viable
\* and the name::set it calls compiles
set_name_ok(l, i, TConfig, T, TValue) ==
    name_template_ok(l) /\ set_ok(l.fields[i], TConfig, T, TValue)

\* set_##name working on a copy of raw_value
set_name_on_copy(l, i, TConfig, T, TValue, raw_value, value) ==
    [set_impl(l.fields[i], TConfig, T, TValue, raw_value, value) EXCEPT !.into = raw_value]

\* set_##name<TConfig>(value): the overload that returns bool if the merged
\* strategy is return_bool, the one that returns nothing otherwise; both call
\* name::set<TConfig>(raw_value, value)
set_name(l, i, TConfig, T, TValue, raw_value, value) ==
    IF effective_strategy(l.fields[i], TConfig) = return_bool
    THEN set_impl(l.fields[i], TConfig, T, TValue, raw_value, value)
    ELSE set_impl(l.fields[i], TConfig, T, TValue, raw_value, value)

----------------------------------------------------------------------------
(* The inputs the model draws *)

\* the widest field of the model
MaxBits == 2

Types == {U8, U16, U32, U64, I8, I16, I32, I64}

StorageTypes == {U8, U32, U64, I32}

ValueTypes == {U8, U64, I8}

ResultTypes == {void, U8, U64}

\* the ends of the scalar types and of int
Boundaries == {8, 32, 64}

\* offsets of a field of n bits in a type T: at the bottom, and ending at a
\* boundary
FieldOffsets(T, n) ==
    {o \in 0 .. (bits(T) - n) : o \in {0, 2} \/ o + n \in Boundaries}

\* values of type T around the span [lo, lo + n): every pattern inside the
\* span, combined with nothing, the bit above the span, or every bit outside
\* the span
Values(T, lo, n) ==
    LET span == lo .. (lo + n - 1)
        outside == {{}, {lo + n} \cap AllBits(T), AllBits(T) \ span}
    IN  {a \cup b : a \in SUBSET (span \cap AllBits(T)), b \in outside}

\* storage words of type T around the field [lo, lo + n): every pattern inside
\* the field, with every bit outside it clear or set
Words(T, lo, n) ==
    LET span == lo .. (lo + n - 1)
    IN  {a \cup b : a \in SUBSET (span \cap AllBits(T)), b \in {{}, AllBits(T) \ span}}

\* default configurations of the field.  get reads the type and the offset,
\* set the offset and the strategy: both see every combination.
DefaultConfigs ==
    {bit_field_config(d[1], o, d[2]) :
        d \in {<<void, strategy_no_override>>, <<U8, return_bool>>}, o \in {no_override, no_shift}}

\* the configurations of the calls of get: every result type and offset, and
\* configurations that name a strategy
GetConfigs ==
    {bit_field_config(t, o, strategy_no_override) : t \in ResultTypes, o \in {no_override, no_shift, 0}}
        \cup {bit_field_config(void, no_override, st) : st \in Strategies}

\* the configurations of the calls of set: every offset and strategy, and
\* configurations that name a type
SetConfigs(n) ==
    {bit_field_config(void, o, st) :
        o \in {no_override, IntWidth - n}, st \in {strategy_no_override, unchecked, mask, exception}}
        \cup {bit_field_config(t, no_override, st) : t \in {U8, U64}, st \in {strategy_no_override, mask}}

NoCall ==
    [op |-> "none", TConfig |-> bit_field_config(void, no_override, strategy_no_override),
     TValue |-> void, value |-> {}, before |-> {}, TResult |-> void, result |-> {},
     ret |-> "void", thrown |-> FALSE]

\* no direct call of extract_bits
NoEx ==
    [op |-> "none", NBits |-> 0, NSourceOffset |-> 0, TSource |-> void, TDestination |-> void,
     NDestinationOffset |-> 0, BSkipMask |-> FALSE, source |-> {}, done |-> FALSE, result |-> {}]

\* no class derived from bit_field_builder
NoLayout == [TDerived |-> "class",
             default_config |-> bit_field_config(void, no_override, strategy_no_override),
             count |-> {}, fields |-> <<>>, decls |-> <<>>]

\* a scope in which no counter macro was used: no function is declared under
\* any name, and no macro is recorded
NoScope == [declared |-> [n \in CounterNames |-> {}], ops |-> <<>>]

\* the threads that call set
Threads == {1, 2}

\* no thread calls set
NoRace ==
    [pc |-> [t \in Threads |-> "idle"],
     call |-> [t \in Threads |->
                  [name |-> 0, TConfig |-> bit_field_config(void, no_override, strategy_no_override),
                   TValue |-> void, value |-> {}]],
     read |-> [t \in Threads |-> {}],
     before |-> {}, events |-> <<>>]

\* the field of the behaviours that call extract_bits directly
NoField == [bits |-> 0, offset |-> 0, default_config |-> bit_field_config(void, no_override, strategy_no_override)]

----------------------------------------------------------------------------
(* get and set of one bit_field on one storage word *)

Init ==
    /\ TStorage \in StorageTypes
    /\ \E n \in 1 .. MaxBits : \E o \in FieldOffsets(TStorage, n) : \E c \in DefaultConfigs :
          /\ field = [bits |-> n, offset |-> o, default_config |-> c]
          /\ into \in Words(TStorage, o, n)
    /\ last = NoCall
    /\ ex = NoEx
    /\ layout = NoLayout
    /\ scope = NoScope
    /\ race = NoRace

\* name::get<TConfig>(into)
Get(TConfig) ==
    /\ last.op = "none"
    /\ get_ok(field, TConfig, TStorage)
    /\ \E r \in get(field, TConfig, TStorage, into) :
          last' = [op |-> "get", TConfig |-> TConfig, TValue |-> TStorage, value |-> into,
                   before |-> into, TResult |-> effective_storage(field, TConfig, TStorage),
                   result |-> r, ret |-> "void", thrown |-> FALSE]
    /\ UNCHANGED <<field, TStorage, into, ex, layout, scope, race>>

\* name::set<TConfig>(into, value), value of type TValue
Set(TConfig, TValue, value) ==
    /\ last.op = "none"
    /\ set_ok(field, TConfig, TStorage, TValue)
    /\ LET r == set_impl(field, TConfig, TStorage, TValue, into, value)
       IN  /\ into' = r.into
           /\ last' = [op |-> "set", TConfig |-> TConfig, TValue |-> TValue, value |-> value,
                       before |-> into, TResult |-> void, result |-> {},
                       ret |-> r.ret, thrown |-> r.thrown]
    /\ UNCHANGED <<field, TStorage, ex, layout, scope, race>>

Next ==
    \/ \E c \in GetConfigs : Get(c)
    \/ \E c \in SetConfigs(field.bits) : \E t \in ValueTypes :
          \E v \in Values(t, effective_offset(field, c), field.bits) : Set(c, t, v)

Spec == Init /\ [][Next]_vars

----------------------------------------------------------------------------
(* extract_bits called directly, as in the tests of bits.hpp *)

\* offsets of the bits in the destination: at the bottom, and ending at a
\* boundary
DestinationOffsets(T, n) ==
    {o \in 0 .. (bits(T) - n) : o \in {0, 2, 3} \/ o + n \in Boundaries}

\* offsets at the edges of what extract_bits accepts, for n bits (0 bits
\* too): the bottom, the last offset at which the bits fit the type and the
\* first at which they do not, and the two largest values of std::size_t
EdgeSourceOffsets(T, n) == {0, 2, bits(T) - n, bits(T) - n + 1, no_override}

EdgeDestinationOffsets(T, n) == {0, bits(T) - n + 1, no_override, no_shift}

\* the sources of these calls: zero, the three lowest bits, all ones
EdgeValues(T) == {{}, {0, 1, 2}, AllBits(T)}

\* the sources of the tests of extract_bits: 0b11111000, 0b11111010,
\* 0b11111100 and 0b11111110
TestSources == {(3 .. 7) \cup f : f \in SUBSET {1, 2}}

\* the bit counts of the masks taken directly: one bit, a few, a byte, all
\* of int, all of the widest type
MaskCounts == {1, 3, 8, 32, 64}

\* the first bits of the masks of n bits of type T: every one that fits, and
\* 2^32 - n and 2^32 - 1, from which the n bits end at or past the end of
\* unsigned
MaskStarts(T, n) == (0 .. (bits(T) - n)) \cup {-n, -1}

\* masks whose first bit or bit count is 2^31 or more, <<NStart, NCount>>:
\* 2^31 + 1 and 2^31 + 1, 2^31 and 2^31, 2^31 - 1 and 2^31 + 1, 1 and
\* 2^32 - 1, whose sums wrap; 2^31 - 1 and 2^31 - 1, 3 and 2^31 - 1, 2^31
\* and 1, whose sums do not
WideMasks ==
    {<<-INT_MAX, -INT_MAX>>, <<-INT_MAX - 1, -INT_MAX - 1>>, <<INT_MAX, -INT_MAX>>, <<1, -1>>,
     <<INT_MAX, INT_MAX>>, <<3, INT_MAX>>, <<-INT_MAX - 1, 1>>}

InitBits ==
    /\ field = NoField
    /\ TStorage = void
    /\ into = {}
    /\ last = NoCall
    /\ layout = NoLayout
    /\ scope = NoScope
    /\ race = NoRace
    /\ \/ \E n \in 1 .. MaxBits : \E ts \in Types : \E td \in Types :
             \E so \in FieldOffsets(ts, n) : \E do \in DestinationOffsets(td, n) :
                \E skip \in BOOLEAN : \E v \in Values(ts, so, n) :
                   ex = [op |-> "extract_bits", NBits |-> n, NSourceOffset |-> so, TSource |-> ts,
                         TDestination |-> td, NDestinationOffset |-> do, BSkipMask |-> skip,
                         source |-> v, done |-> FALSE, result |-> {}]
       \/ \E n \in 0 .. MaxBits : \E ts \in Types : \E td \in Types :
             \E so \in EdgeSourceOffsets(ts, n) : \E do \in EdgeDestinationOffsets(td, n) :
                \E skip \in BOOLEAN : \E v \in EdgeValues(ts) :
                   ex = [op |-> "extract_bits", NBits |-> n, NSourceOffset |-> so, TSource |-> ts,
                         TDestination |-> td, NDestinationOffset |-> do, BSkipMask |-> skip,
                         source |-> v, done |-> FALSE, result |-> {}]
       \/ \E skip \in BOOLEAN : \E v \in TestSources :
             ex = [op |-> "extract_bits", NBits |-> 2, NSourceOffset |-> 1, TSource |-> U8,
                   TDestination |-> U8, NDestinationOffset |-> 3, BSkipMask |-> skip,
                   source |-> v, done |-> FALSE, result |-> {}]
       \/ \E n \in MaskCounts : \E t \in Types : \E start \in MaskStarts(t, n) :
             ex = [NoEx EXCEPT !.op = "bit_mask", !.NBits = n, !.NSourceOffset = start, !.TSource = t]
       \/ \E m \in WideMasks : \E t \in Types :
             ex = [NoEx EXCEPT !.op = "bit_mask", !.NBits = m[2], !.NSourceOffset = m[1], !.TSource = t]

\* extract_bits<NBits, NSourceOffset, TSource, TDestination, NDestinationOffset, BSkipMask>(source)
ExtractBits ==
    /\ ex.op = "extract_bits"
    /\ ~ex.done
    /\ extract_bits_ok(ex.NBits, ex.NSourceOffset, ex.TSource, ex.TDestination, ex.NDestinationOffset)
    /\ \E r \in extract_bits(ex.NBits, ex.NSourceOffset, ex.TSource, ex.TDestination,
                             ex.NDestinationOffset, ex.BSkipMask, ex.source) :
          ex' = [ex EXCEPT !.done = TRUE, !.result = r]
    /\ UNCHANGED <<field, TStorage, into, last, layout, scope, race>>

\* bit_mask<T, NStart, NCount>, with T = ex.TSource, NStart = ex.NSourceOffset
\* and NCount = ex.NBits
BitMask ==
    /\ ex.op = "bit_mask"
    /\ ~ex.done
    /\ bit_mask_ok(ex.TSource, ex.NSourceOffset, ex.NBits)
    /\ ex' = [ex EXCEPT !.done = TRUE,
                        !.result = bit_mask(ex.TSource, ex.NSourceOffset, ex.NBits)]
    /\ UNCHANGED <<field, TStorage, into, last, layout, scope, race>>

NextBits == ExtractBits \/ BitMask

SpecBits == InitBits /\ [][NextBits]_vars

----------------------------------------------------------------------------
(* The declarations of a class derived from bit_field_builder *)

\* the most declarations (BIT_FIELD and BIT_FIELD_PAD) of a class
MaxDecls == 4

\* the storage types of the classes
LayoutTypes == {U8, U32}

\* the bit counts of the declarations
DeclBits == {0, 1, 2, 3, 5, 22}

\* the optional configuration of a BIT_FIELD: none, or a byte not shifted
FieldArgs == {<<>>, <<bit_field_config(U8, no_shift, strategy_no_override)>>}

\* a class that gives bit_field_builder no TDefaultConfig, with no declaration
\* yet
InitLayout ==
    /\ TStorage \in LayoutTypes
    /\ layout = bit_field_builder("class", bit_field_config(void, no_override, strategy_no_override))
    /\ field = NoField
    /\ into = {}
    /\ last = NoCall
    /\ ex = NoEx
    /\ scope = NoScope
    /\ race = NoRace

\* BIT_FIELD(name, num_bits, TArgs...) in the class
DeclareField(num_bits, TArgs) ==
    /\ Len(layout.decls) < MaxDecls
    /\ self_ok(layout, "")
    /\ BIT_FIELD_DEP_ok(layout, TStorage, num_bits)
    /\ layout' = [BIT_FIELD_DEP(layout, TStorage, num_bits, TArgs) EXCEPT
                     !.decls = Append(@, [kind |-> "field", num_bits |-> num_bits,
                                          name |-> Len(layout.fields) + 1,
                                          at |-> COUNTER_VALUE(count(layout), max_field(TStorage)),
                                          args |-> TArgs])]
    /\ UNCHANGED <<field, TStorage, into, last, ex, scope, race>>

\* BIT_FIELD_PAD(num_bits) in the class
DeclarePad(num_bits) ==
    /\ Len(layout.decls) < MaxDecls
    /\ self_ok(layout, "")
    /\ BIT_FIELD_PAD_DEP_ok(layout, TStorage, num_bits)
    /\ layout' = [BIT_FIELD_PAD_DEP(layout, TStorage, num_bits) EXCEPT
                     !.decls = Append(@, [kind |-> "pad", num_bits |-> num_bits, name |-> 0,
                                          at |-> COUNTER_VALUE(count(layout), max_field(TStorage)),
                                          args |-> <<>>])]
    /\ UNCHANGED <<field, TStorage, into, last, ex, scope, race>>

NextLayout ==
    \/ \E n \in DeclBits : \E a \in FieldArgs : DeclareField(n, a)
    \/ \E n \in DeclBits : DeclarePad(n)

SpecLayout == InitLayout /\ [][NextLayout]_vars

----------------------------------------------------------------------------
(* The counter macros used in a class scope, as in counter_test *)

\* the most macros used in the scope
MaxCounterOps == 4

\* the max_value given to COUNTER_VALUE and COUNTER_ADD
CounterMax == 4

\* the initial values and the amounts added
CounterInitials == {0, 1, 3}
CounterAdds == {0, 1, 2}

\* the value of every counter of the scope that can be read: those for which
\* COUNTER_VALUE(name, CounterMax) compiles
CounterValues(declared) ==
    [n \in {m \in CounterNames : COUNTER_VALUE_ok(declared[m], CounterMax)} |->
        COUNTER_VALUE(declared[n], CounterMax)]

InitCounter ==
    /\ scope = NoScope
    /\ race = NoRace
    /\ field = NoField
    /\ TStorage = void
    /\ into = {}
    /\ last = NoCall
    /\ ex = NoEx
    /\ layout = NoLayout

\* COUNTER_INITIALIZE(name, initial_value): declares the overload
\* name(counter<initial_value>).  A member function cannot be declared twice,
\* so the macro compiles unless that overload of name is declared already, by
\* a COUNTER_INITIALIZE or a COUNTER_ADD; used again on the same name with
\* another value it declares one more overload.
CounterInitialize(name, initial_value) ==
    /\ Len(scope.ops) < MaxCounterOps
    /\ initial_value \notin scope.declared[name]
    /\ LET declared == [scope.declared EXCEPT ![name] = @ \cup COUNTER_INITIALIZE(initial_value)]
       IN  scope' = [declared |-> declared,
                     ops |-> Append(scope.ops, [op |-> "init", name |-> name, value |-> initial_value,
                                                values |-> CounterValues(declared)])]
    /\ UNCHANGED <<field, TStorage, into, last, ex, layout, race>>

\* COUNTER_ADD(name, add_value, CounterMax): reads the counter called name
\* and declares an overload of the function COUNTER_ADD declares
CounterAdd(name, add_value) ==
    /\ Len(scope.ops) < MaxCounterOps
    /\ COUNTER_VALUE_ok(scope.declared[name], CounterMax)
    /\ COUNTER_ADD(scope.declared[name], add_value, CounterMax) \notin scope.declared[COUNTER_ADD_declares(name)]
    /\ LET declared == [scope.declared EXCEPT ![COUNTER_ADD_declares(name)] =
                           @ \cup {COUNTER_ADD(scope.declared[name], add_value, CounterMax)}]
       IN  scope' = [declared |-> declared,
                     ops |-> Append(scope.ops, [op |-> "add", name |-> name, value |-> add_value,
                                                values |-> CounterValues(declared)])]
    /\ UNCHANGED <<field, TStorage, into, last, ex, layout, race>>

NextCounter ==
    \/ \E n \in CounterNames : \E v \in CounterInitials : CounterInitialize(n, v)
    \/ \E n \in CounterNames : \E a \in CounterAdds : CounterAdd(n, a)

SpecCounter == InitCounter /\ [][NextCounter]_vars

----------------------------------------------------------------------------
(* Instances of classes derived from bit_field_builder *)

\* the declarations of a class: BIT_FIELD(name, n, args...) and
\* BIT_FIELD_PAD(n), which give BIT_FIELD_DEP and BIT_FIELD_PAD_DEP an empty
\* self
Field(n, TArgs) == [kind |-> "field", self |-> "", num_bits |-> n, args |-> TArgs]
Pad(n) == [kind |-> "pad", self |-> "", num_bits |-> n, args |-> <<>>]

\* BIT_FIELD_DEP(TDerived::, name, n, args...) and BIT_FIELD_PAD_DEP(TDerived::, n)
FieldDep(n, TArgs) == [kind |-> "field", self |-> "TDerived::", num_bits |-> n, args |-> TArgs]
PadDep(n) == [kind |-> "pad", self |-> "TDerived::", num_bits |-> n, args |-> <<>>]

RECURSIVE Declare(_, _, _, _, _)
\* the class after the first k declarations of the sequence, each recorded
\* with its optional configuration
Declare(TDerived, TDefaultConfig, T, declarations, k) ==
    IF k = 0
    THEN bit_field_builder(TDerived, TDefaultConfig)
    ELSE LET l == Declare(TDerived, TDefaultConfig, T, declarations, k - 1)
             d == declarations[k]
             at == COUNTER_VALUE(count(l), max_field(T))
         IN  IF d.kind = "field"
             THEN [BIT_FIELD_DEP(l, T, d.num_bits, d.args) EXCEPT
                      !.decls = Append(@, [kind |-> "field", num_bits |-> d.num_bits,
                                           name |-> Len(l.fields) + 1, at |-> at, args |-> d.args])]
             ELSE [BIT_FIELD_PAD_DEP(l, T, d.num_bits) EXCEPT
                      !.decls = Append(@, [kind |-> "pad", num_bits |-> d.num_bits,
                                           name |-> 0, at |-> at, args |-> <<>>])]

RECURSIVE Declare_ok(_, _, _, _, _)
\* every one of the first k declarations compiles
Declare_ok(TDerived, TDefaultConfig, T, declarations, k) ==
    IF k = 0
    THEN TRUE
    ELSE /\ Declare_ok(TDerived, TDefaultConfig, T, declarations, k - 1)
         /\ LET l == Declare(TDerived, TDefaultConfig, T, declarations, k - 1)
                d == declarations[k]
            IN  /\ self_ok(l, d.self)
                /\ IF d.kind = "field"
                   THEN BIT_FIELD_DEP_ok(l, T, d.num_bits)
                   ELSE BIT_FIELD_PAD_DEP_ok(l, T, d.num_bits)

\* the class my_bit_field of the documentation, on std::uint32_t
my_bit_field ==
    <<Field(5, <<>>), Field(2, <<bit_field_config(U8, no_shift, strategy_no_override)>>),
      Pad(22), Field(3, <<>>)>>

\* the declarations of my_bit_field written with BIT_FIELD_DEP and
\* BIT_FIELD_PAD_DEP, as the documentation writes them in a class template
my_bit_field_dep ==
    <<FieldDep(5, <<>>), FieldDep(2, <<bit_field_config(U8, no_shift, strategy_no_override)>>),
      PadDep(22), FieldDep(3, <<>>)>>

\* the class m_sequence_control of the tests, on std::uint8_t; its enums have
\* the underlying type int
m_sequence_control ==
    <<Field(5, <<bit_field_config(U8, no_override, strategy_no_override)>>),
      Field(2, <<bit_field_config(I32, no_override, strategy_no_override)>>),
      Field(1, <<bit_field_config(I32, no_override, strategy_no_override)>>)>>

\* the word of the documented scenario: 0b11100000000000000000000001111111
ScenarioWord == (0 .. 6) \cup (29 .. 31)

\* class-wide configurations
ClassConfigs ==
    {bit_field_config(void, no_override, strategy_no_override),
     bit_field_config(U8, no_shift, return_bool),
     bit_field_config(void, 3, unchecked)}

\* optional configurations of a field
MergeArgs ==
    {<<>>,
     <<bit_field_config(void, no_override, strategy_no_override)>>,
     <<bit_field_config(U8, no_shift, strategy_no_override)>>,
     <<bit_field_config(void, no_override, exception)>>,
     <<bit_field_config(void, 1, strategy_no_override)>>,
     <<bit_field_config(U32, 0, mask)>>}

\* the classes of which the model makes instances: the two documented ones,
\* classes of two bits of padding and a field of two bits, with every
\* class-wide configuration and every configuration of the field, the
\* declarations of my_bit_field on std::int32_t, and the documented class
\* template my_bit_field<T>, written with either set of macros, and the
\* class my_bit_field written with the macros that take self
Classes ==
    {[TDerived |-> "class", T |-> U32,
      default_config |-> bit_field_config(void, no_override, strategy_no_override),
      declarations |-> my_bit_field],
     [TDerived |-> "class", T |-> U8,
      default_config |-> bit_field_config(void, no_override, strategy_no_override),
      declarations |-> m_sequence_control]}
    \cup {[TDerived |-> "class", T |-> t, default_config |-> c,
           declarations |-> <<Pad(2), Field(2, a)>>] :
             t \in LayoutTypes, c \in ClassConfigs, a \in MergeArgs}
    \cup {[TDerived |-> "class", T |-> I32,
           default_config |-> bit_field_config(void, no_override, strategy_no_override),
           declarations |-> my_bit_field]}
    \cup {[TDerived |-> k, T |-> U32,
           default_config |-> bit_field_config(void, no_override, strategy_no_override),
           declarations |-> d] :
             k \in TDerivedKinds, d \in {my_bit_field, my_bit_field_dep}}

\* the words an instance is initialized with; raw_value{0} is the default
InstanceWords(T) == {{}, ScenarioWord \cap AllBits(T), AllBits(T)}

\* the offset 2^64 - 3, with which three bits end where std::size_t ends
EndOffset == no_shift - 1

\* the configurations of the calls of the accessors
GetNameConfigs ==
    {bit_field_config(t, o, strategy_no_override) :
        t \in {void, U8}, o \in {no_override, no_shift, 0, 4, EndOffset}}

SetNameConfigs ==
    {bit_field_config(void, o, st) :
        o \in {no_override, no_shift, 0, 4}, st \in Strategies \cup {strategy_no_override}}

\* the types of the values given to set: a byte, and int (a literal, an enum)
SetNameTypes == {U8, I32}

\* values of type T for a set of n bits at offset lo: zero, the lowest bit of
\* the span, all of the span, the span and the bit above it, and all ones
SetNameValues(T, lo, n) ==
    {v \cap AllBits(T) :
        v \in {{}, {lo}, lo .. (lo + n - 1), lo .. (lo + n), AllBits(T)}}

InitBuilder ==
    /\ \E c \in Classes :
          /\ Declare_ok(c.TDerived, c.default_config, c.T, c.declarations, Len(c.declarations))
          /\ TStorage = c.T
          /\ layout = Declare(c.TDerived, c.default_config, c.T, c.declarations, Len(c.declarations))
    /\ into \in InstanceWords(TStorage)
    /\ field = NoField
    /\ last = NoCall
    /\ ex = NoEx
    /\ scope = NoScope
    /\ race = NoRace

\* instance.get_name<TConfig>(), name the i-th field of the class
GetName(i, TConfig) ==
    /\ get_name_ok(layout, i, TConfig, TStorage)
    /\ field' = layout.fields[i]
    /\ \E r \in get_name(layout, i, TConfig, TStorage, into) :
          last' = [op |-> "get", TConfig |-> TConfig, TValue |-> TStorage, value |-> into,
                   before |-> into, TResult |-> effective_storage(layout.fields[i], TConfig, TStorage),
                   result |-> r, ret |-> "void", thrown |-> FALSE]
    /\ UNCHANGED <<TStorage, into, ex, layout, scope, race>>

\* instance.set_name<TConfig>(value), value of type TValue
SetName(i, TConfig, TValue, value) ==
    /\ set_name_ok(layout, i, TConfig, TStorage, TValue)
    /\ field' = layout.fields[i]
    /\ LET r == set_name(layout, i, TConfig, TStorage, TValue, into, value)
       IN  /\ into' = r.into
           /\ last' = [op |-> "set", TConfig |-> TConfig, TValue |-> TValue, value |-> value,
                       before |-> into, TResult |-> void, result |-> {},
                       ret |-> r.ret, thrown |-> r.thrown]
    /\ UNCHANGED <<TStorage, ex, layout, scope, race>>

\* the first call on an instance is made with any configuration, the calls
\* after it with the default one, bit_field_config{}
CallConfigs(configs) ==
    IF last.op = "none"
    THEN configs
    ELSE {bit_field_config(void, no_override, strategy_no_override)}

NextBuilder ==
    \/ \E i \in 1 .. Len(layout.fields) : \E c \in CallConfigs(GetNameConfigs) : GetName(i, c)
    \/ \E i \in 1 .. Len(layout.fields) : \E c \in CallConfigs(SetNameConfigs) : \E t \in SetNameTypes :
          \E v \in SetNameValues(t, effective_offset(layout.fields[i], c), layout.fields[i].bits) :
             SetName(i, c, t, v)

SpecBuilder == InitBuilder /\ [][NextBuilder]_vars

----------------------------------------------------------------------------
(* Two threads that call set on the same instance, unsynchronized *)

\* the types of the values the threads write: a byte, a 64-bit word, and
\* int (a literal, an enum)
RaceTypes == {U8, U64, I32}

\* the configurations of the two calls for a field of n bits: the value is
\* taken where the field says, or from the n bits that end where int ends;
\* the strategy is the one of the field or one given with the call
RaceConfigs(n) ==
    {bit_field_config(void, o, st) :
        o \in {no_override, IntWidth - n}, st \in {strategy_no_override, unchecked, exception}}

\* the values of type T written to a field of n bits whose value is taken at
\* offset lo: zero, every bit of the field, and the bit above the field
RaceValues(T, lo, n) ==
    {v \cap AllBits(T) : v \in {{}, lo .. (lo + n - 1), {lo + n}}}

\* set<TConfig>(into, value) reaches set_helper: the unchecked and the mask
\* strategies call it whatever the value is, the return_bool and exception
\* strategies when their test finds no bit
set_writes(f, TConfig, TValue, value) ==
    effective_strategy(f, TConfig) \in {return_bool, exception}
    => invalid_bits(f, TConfig, TValue, value) = {}

\* the calls set_name<TConfig>(value) on the i-th field
RaceCalls(i) ==
    LET f == layout.fields[i]
    IN  UNION {UNION {{[name |-> i, TConfig |-> c, TValue |-> t, value |-> v] :
                          v \in RaceValues(t, effective_offset(f, c), f.bits)} :
                      t \in RaceTypes} :
               c \in RaceConfigs(f.bits)}

\* the call compiles and writes
RaceCall_ok(call) ==
    /\ set_name_ok(layout, call.name, call.TConfig, TStorage, call.TValue)
    /\ set_writes(layout.fields[call.name], call.TConfig, call.TValue, call.value)

\* An instance of one of the documented classes and two threads about to
\* call set_name on two different fields of it; the threads draw their calls
\* from the same set, so thread 1 is the one that sets the field declared
\* first.  The evaluation of
\* "into & ~mask" reads the storage word and the assignment to "into" writes
\* it; nothing orders the steps of one thread with those of the other.
InitRace ==
    /\ \E c \in {k \in Classes : k.declarations \in {my_bit_field, m_sequence_control}} :
          /\ Declare_ok(c.TDerived, c.default_config, c.T, c.declarations, Len(c.declarations))
          /\ TStorage = c.T
          /\ layout = Declare(c.TDerived, c.default_config, c.T, c.declarations, Len(c.declarations))
    /\ into \in InstanceWords(TStorage)
    /\ \E i \in 1 .. Len(layout.fields) : \E j \in 1 .. Len(layout.fields) :
          \E a \in RaceCalls(i) : \E b \in RaceCalls(j) :
             /\ i < j
             /\ RaceCall_ok(a)
             /\ RaceCall_ok(b)
             /\ race = [pc |-> [t \in Threads |-> "read"],
                        call |-> [t \in Threads |-> IF t = 1 THEN a ELSE b],
                        read |-> [t \in Threads |-> {}],
                        before |-> into, events |-> <<>>]
    /\ field = NoField
    /\ last = NoCall
    /\ ex = NoEx
    /\ scope = NoScope

\* thread t evaluates "into & ~bit_mask<TStorage, offset, bits>"
SetRead(t) ==
    /\ race.pc[t] = "read"
    /\ race' = [race EXCEPT !.pc[t] = "write", !.read[t] = into,
                            !.events = Append(@, [thread |-> t, step |-> "read"])]
    /\ UNCHANGED <<field, TStorage, into, last, ex, layout, scope>>

\* thread t assigns to "into"
SetWrite(t) ==
    /\ race.pc[t] = "write"
    /\ LET call == race.call[t]
           f == layout.fields[call.name]
       IN  into' = set_helper_write(f, call.TConfig, TStorage, call.TValue,
                                    effective_strategy(f, call.TConfig) # mask,
                                    race.read[t], into, call.value)
    /\ race' = [race EXCEPT !.pc[t] = "done",
                            !.events = Append(@, [thread |-> t, step |-> "write"])]
    /\ UNCHANGED <<field, TStorage, last, ex, layout, scope>>

NextRace ==
    \/ \E t \in Threads : SetRead(t)
    \/ \E t \in Threads : SetWrite(t)

SpecRace == InitRace /\ [][NextRace]_vars

----------------------------------------------------------------------------
(* Properties of get and set *)

\* the bit positions lo .. lo + n - 1
Span(lo, n) == lo .. (lo + n - 1)

\* the bits of x moved up by d positions (down for d < 0)
Moved(x, d) == {i + d : i \in x}

\* the offset and the strategy the last call merged from its configuration
\* and the field's
LastOffset == effective_offset(field, last.TConfig)
LastStrategy == effective_strategy(field, last.TConfig)

\* the span of the field in the storage word, and in the value of a set
FieldSpan == Span(field.offset, field.bits)
ValueSpan == Span(LastOffset, field.bits)

\* the last set call was given a value with no bit outside the field's
\* width at the merged offset
ValueInRange == last.value \subseteq ValueSpan

\* the last set call returned true, or returned without throwing
SetSucceeded ==
    \/ LastStrategy = return_bool /\ last.ret = "true"
    \/ LastStrategy = exception /\ ~last.thrown

\* the storage word after the field's span was cleared and the bits of the
\* value were moved from the merged offset to the field's offset
FieldWritten ==
    into = (last.before \ FieldSpan) \cup (Moved(last.value, field.offset - LastOffset) \cap AllBits(TStorage))

\* The formulas of C1 to C8 are stated for calls whose storage, value and
\* result types are all unsigned: the scalar types the specification names.
\* A call that violates one of them violates the claim as written, which is
\* about every type the library accepts.
UnsignedGet == last.op = "get" /\ ~TStorage.s /\ ~last.TResult.s
UnsignedSet == last.op = "set" /\ ~TStorage.s /\ ~last.TValue.s

\* C1: with no result type and no offset configured at any level, get(v)
\* returns, in the type of v, the field's bits of v moved to the least
\* significant position and every other bit zero, for every v.
C1_GetDefault ==
    (/\ UnsignedGet
     /\ last.TConfig.type = void /\ last.TConfig.offset = no_override
     /\ field.default_config.type = void /\ field.default_config.offset = no_override)
    => /\ last.TResult = TStorage
       /\ last.result = Moved(last.value \cap FieldSpan, -field.offset)

\* C2: extract_bits without skipMask returns the destination value whose bits
\* [do, do + bits) are the bits [so, so + bits) of the source and whose other
\* bits are 0, whatever the two widths and the sign of the shift.
C2_ExtractBits ==
    (ex.op = "extract_bits" /\ ex.done /\ ~ex.BSkipMask /\ ~ex.TSource.s /\ ~ex.TDestination.s)
    => ex.result = Moved(ex.source \cap Span(ex.NSourceOffset, ex.NBits), ex.NDestinationOffset - ex.NSourceOffset)

\* the configuration of the get that reads back what the last set wrote: the
\* same offset, no strategy
ReadBackConfig == bit_field_config(void, last.TConfig.offset, strategy_no_override)

\* C3: under the mask strategy, get after set(s, v) with the same merged
\* configuration returns v with every bit outside the field's width at the
\* merged offset cleared.
C3_RoundTrip ==
    (/\ UnsignedSet
     /\ LastStrategy = mask
     /\ ~effective_storage(field, ReadBackConfig, TStorage).s
     /\ get_ok(field, ReadBackConfig, TStorage))
    => get(field, ReadBackConfig, TStorage, into) = {last.value \cap ValueSpan}

\* C4: under the mask strategy, set changes no storage bit outside the
\* field's span.
C4_MaskFrame ==
    (UnsignedSet /\ LastStrategy = mask)
    => into \ FieldSpan = last.before \ FieldSpan

\* C5: under return_bool and exception, set succeeds if and only if the value
\* has no bit outside [e, e + bits), e the merged offset of the call.
C5_CheckedIff ==
    (UnsignedSet /\ LastStrategy \in {return_bool, exception})
    => (SetSucceeded <=> ValueInRange)

\* C6: under return_bool, a value with a bit outside the field's width makes
\* set return false and leave the storage word as it was; otherwise the field
\* is written and set returns true.
C6_ReturnBool ==
    (UnsignedSet /\ LastStrategy = return_bool)
    => IF ValueInRange
       THEN last.ret = "true" /\ FieldWritten
       ELSE last.ret = "false" /\ into = last.before

\* C7: under exception, a value with a bit outside the field's width makes
\* set throw bit_field_error and leave the storage word as it was; otherwise
\* the field is written and nothing is thrown.
C7_Exception ==
    (UnsignedSet /\ LastStrategy = exception)
    => IF ValueInRange
       THEN ~last.thrown /\ FieldWritten
       ELSE last.thrown /\ into = last.before

\* C8: under unchecked, set clears the field's span in the storage word and
\* ORs in the value moved from the merged offset to the field's offset,
\* unmasked, so that its bits outside the field's width land on the storage
\* bits next to the field.
C8_Unchecked ==
    (UnsignedSet /\ LastStrategy = unchecked)
    => FieldWritten

\* the last set call, with its strategy replaced by st
LastSetUnder(st) ==
    set_impl(field, [last.TConfig EXCEPT !.strategy = st], TStorage, last.TValue, last.before, last.value)

\* C9: a value with no bit outside the field's width at the merged offset
\* gives the same storage word under all four strategies, return_bool
\* returning true and exception not throwing.
C9_StrategiesAgree ==
    (last.op = "set" /\ ValueInRange)
    => /\ \A st \in Strategies : LastSetUnder(st).into = into
       /\ LastSetUnder(return_bool).ret = "true"
       /\ ~LastSetUnder(exception).thrown
       /\ ~last.thrown
       /\ last.ret # "false"

\* C9 happens: a checked set of a non-zero value in range, moved from a merged
\* offset that differs from the field's, changed the storage word.
C9_Witness ==
    /\ last.op = "set"
    /\ LastStrategy = exception
    /\ ValueInRange
    /\ last.value # {}
    /\ LastOffset # field.offset
    /\ into # last.before

\* C10: under the mask strategy, a second set of the same value leaves the
\* storage word as the first set left it.
C10_MaskIdempotent ==
    (last.op = "set" /\ LastStrategy = mask)
    => set_impl(field, last.TConfig, TStorage, last.TValue, into, last.value).into = into

\* C10 happens: a mask set of a value with extraneous bits changed the
\* storage word.
C10_Witness ==
    /\ last.op = "set"
    /\ LastStrategy = mask
    /\ ~ValueInRange
    /\ last.value \cap ValueSpan # {}
    /\ into # last.before

\* the offset of the last call was merged from keep-source-position
\* (no_shift) at the level that decided it
LastNoShift ==
    \/ last.TConfig.offset = no_shift
    \/ last.TConfig.offset = no_override /\ field.default_config.offset = no_shift

\* C11: when the merged offset is no_shift and the result type is the source
\* type, get(v) is v with the field's bits in place and every other bit
\* cleared.
C11_NoShiftGet ==
    (last.op = "get" /\ LastNoShift /\ last.TResult = TStorage)
    => last.result = last.value \cap FieldSpan

----------------------------------------------------------------------------
(* Properties of the declarations of a class *)

RECURSIVE SumBits(_, _)
\* the bit counts of the first i declarations of the sequence, added up
SumBits(decls, i) == IF i = 0 THEN 0 ELSE SumBits(decls, i - 1) + decls[i].num_bits

\* the bits declared in the class so far, fields and padding
DeclaredBits == SumBits(layout.decls, Len(layout.decls))

\* the declarations of the class that declared a field
FieldDecls == {i \in 1 .. Len(layout.decls) : layout.decls[i].kind = "field"}

\* C14: in a class whose declarations add up to at most the width of the
\* storage type, the field of the i-th declaration starts at the sum of the
\* bit counts of the declarations before it.
C14_Offsets ==
    DeclaredBits <= bits(TStorage)
    => \A i \in FieldDecls :
          layout.fields[layout.decls[i].name].offset = SumBits(layout.decls, i - 1)

\* C14 happens: a field declared after two fields and padding, as field3 of
\* the documented class (5 + 2 + 22 bits before it).
C14_Witness ==
    /\ Len(layout.decls) = 4
    /\ DeclaredBits = bits(TStorage)
    /\ layout.decls[3].kind = "pad" /\ layout.decls[3].num_bits = 22
    /\ layout.decls[4].kind = "field"
    /\ layout.fields[layout.decls[4].name].offset = 29

C16_IsComplete ==
    is_complete_ok(layout, TStorage)
    => (is_complete(layout, TStorage) <=> DeclaredBits = bits(TStorage))

\* C17: no accepted sequence of declarations, fields and padding, adds up to
\* more bits than the storage type has.
C17_NoOverflow == DeclaredBits <= bits(TStorage)

\* C18: after a padding declaration of n bits the counter of the class reads
\* n more than it did before the declaration, no field was added, and the
\* declaration after it reads that value.
C18_PadAdvances ==
    \A i \in 1 .. Len(layout.decls) :
       layout.decls[i].kind = "pad"
       => /\ layout.decls[i].name = 0
          /\ IF i < Len(layout.decls)
             THEN layout.decls[i + 1].at = layout.decls[i].at + layout.decls[i].num_bits
             ELSE /\ is_complete_ok(layout, TStorage)
                  /\ COUNTER_VALUE(count(layout), max_field(TStorage))
                        = layout.decls[i].at + layout.decls[i].num_bits

----------------------------------------------------------------------------
(* Properties of the instances of a class *)

\* the declaration of the field the last accessor call was made on
LastDecl == CHOOSE i \in FieldDecls : layout.fields[layout.decls[i].name] = field

\* the configuration levels of the last call, highest priority first: the
\* call, the BIT_FIELD declaration if it gave a configuration, the class
ConfigLevels ==
    <<last.TConfig>> \o layout.decls[LastDecl].args \o <<layout.default_config>>

RECURSIVE FirstSpecified(_, _, _)
\* the first value of the sequence that is not the sentinel; the default if
\* there is none
FirstSpecified(values, sentinel, default) ==
    IF values = <<>>
    THEN default
    ELSE IF Head(values) # sentinel
         THEN Head(values)
         ELSE FirstSpecified(Tail(values), sentinel, default)

\* the offset of the last call in priority order, no_shift resolved to the
\* offset of the field in the storage word
PriorityOffset ==
    LET winner == FirstSpecified([i \in 1 .. Len(ConfigLevels) |-> ConfigLevels[i].offset], no_override, 0)
    IN  IF winner = no_shift THEN field.offset ELSE winner

\* the strategy and the result type of the last call in priority order
PriorityStrategy ==
    FirstSpecified([i \in 1 .. Len(ConfigLevels) |-> ConfigLevels[i].strategy],
                   strategy_no_override, BIT_FIELD_DEFAULT_STRATEGY)

PriorityType ==
    FirstSpecified([i \in 1 .. Len(ConfigLevels) |-> ConfigLevels[i].type], void, TStorage)

\* the field of the last call without a default configuration, and the
\* outcome of a set on it with the offset and the strategy given at the call
PlainField ==
    [bits |-> field.bits, offset |-> field.offset,
     default_config |-> bit_field_config(void, no_override, strategy_no_override)]

PlainSet(offset, strategy) ==
    set_impl(PlainField, bit_field_config(void, offset, strategy), TStorage,
             last.TValue, last.before, last.value)

\* the outcome of the last set
LastOutcome == [into |-> into, ret |-> last.ret, thrown |-> last.thrown]

\* C12: the offset a get or set call uses is the first one specified among
\* the call, the BIT_FIELD declaration and the class, else 0, with no_shift
\* at the winning level standing for the field's offset in the storage word.
C12_OffsetPriority ==
    last.op # "none"
    => /\ LastOffset = PriorityOffset
       /\ last.op = "get"
          => last.result \in extract_bits(field.bits, field.offset, TStorage, last.TResult,
                                        PriorityOffset, FALSE, last.value)
       /\ last.op = "set" => LastOutcome = PlainSet(PriorityOffset, LastStrategy)

\* C12 happens: a get whose call gives the offset 0 to a field whose default
\* offset, from its declaration or its class, is another one.
C12_Witness ==
    /\ last.op = "get"
    /\ last.TConfig.offset = 0
    /\ effective_offset(field, bit_field_config(void, no_override, strategy_no_override)) > 0
    /\ last.result # {}

\* C13: the strategy a set call uses is the first one specified among the
\* call, the BIT_FIELD declaration and the class, else the build-time
\* default; the result type of a get is merged the same way, each attribute
\* on its own.
C13_StrategyPriority ==
    /\ last.op = "set"
       => /\ LastStrategy = PriorityStrategy
          /\ LastOutcome = PlainSet(LastOffset, PriorityStrategy)
    /\ last.op = "get" => last.TResult = PriorityType

\* C13 happens: a set refused by the return_bool strategy of the class, on a
\* field whose declaration overrides the offset only, called with an offset
\* of its own.
C13_Witness ==
    /\ last.op = "set"
    /\ last.TConfig.strategy = strategy_no_override
    /\ last.TConfig.offset \notin {no_override, no_shift}
    /\ Len(layout.decls[LastDecl].args) = 1
    /\ layout.decls[LastDecl].args[1].strategy = strategy_no_override
    /\ layout.decls[LastDecl].args[1].offset # no_override
    /\ layout.default_config.strategy = return_bool
    /\ last.ret = "false"

\* the class my_bit_field, declared
MyBitField ==
    Declare("class", bit_field_config(void, no_override, strategy_no_override), U32, my_bit_field,
            Len(my_bit_field))

\* the last call was made on the n-th field of my_bit_field with the default
\* configuration
ScenarioCall(op, n) ==
    /\ TStorage = U32
    /\ layout = MyBitField
    /\ last.op = op
    /\ last.TConfig = bit_field_config(void, no_override, strategy_no_override)
    /\ field = layout.fields[n]

\* C19: on my_bit_field the documented word reads as field1 = 31, field2 =
\* 0b01100000 as a byte and field3 = 0b111, and setting field1 = 31, field2 =
\* byte 0b01100000 and field3 = 0b111 one after the other on the word 0 gives
\* the documented word.
C19_Scenario ==
    /\ (ScenarioCall("get", 1) /\ last.before = ScenarioWord)
       => (last.TResult = U32 /\ last.result = 0 .. 4)
    /\ (ScenarioCall("get", 2) /\ last.before = ScenarioWord)
       => (last.TResult = U8 /\ last.result = {5, 6})
    /\ (ScenarioCall("get", 3) /\ last.before = ScenarioWord)
       => (last.TResult = U32 /\ last.result = 0 .. 2)
    /\ (ScenarioCall("set", 1) /\ last.before = {} /\ last.TValue = I32 /\ last.value = 0 .. 4)
       => into = 0 .. 4
    /\ (ScenarioCall("set", 2) /\ last.before = 0 .. 4 /\ last.TValue = U8 /\ last.value = {5, 6})
       => into = 0 .. 6
    /\ (ScenarioCall("set", 3) /\ last.before = 0 .. 6 /\ last.TValue = I32 /\ last.value = 0 .. 2)
       => into = ScenarioWord

\* C19 happens: the third set of the scenario, on the word the first two
\* left.
C19_Witness ==
    /\ ScenarioCall("set", 3)
    /\ last.before = 0 .. 6 /\ last.TValue = I32 /\ last.value = 0 .. 2
    /\ into = ScenarioWord

\* every field of the class has its accessors: wherever name::get<TConfig> or
\* name::set<TConfig> can be called on a storage word, get_name<TConfig> or
\* set_name<TConfig> can be called on an instance
AccessorsGenerated ==
    \A i \in 1 .. Len(layout.fields) :
       /\ \A c \in GetNameConfigs :
             get_ok(layout.fields[i], c, TStorage) => get_name_ok(layout, i, c, TStorage)
       /\ \A c \in SetNameConfigs : \A t \in SetNameTypes :
             set_ok(layout.fields[i], c, TStorage, t) => set_name_ok(layout, i, c, TStorage, t)

\* an accessor that was called did what the static function of its field
\* does on the storage word of the instance
AccessorsDelegate ==
    /\ last.op = "get"
       => /\ last.result \in get(field, last.TConfig, TStorage, last.before)
          /\ last.TResult = effective_storage(field, last.TConfig, TStorage)
          /\ into = last.before
    /\ last.op = "set"
       => /\ LastOutcome = set_impl(field, last.TConfig, TStorage, last.TValue, last.before, last.value)
          /\ last.ret \in {"true", "false"} <=> LastStrategy = return_bool
          /\ last.thrown => (LastStrategy = exception /\ into = last.before)

\* C20: an accessor does what the static function of its field does on the
\* storage word of the instance, for every instance: get_name returns
\* name::get(raw_value) and leaves the word alone, set_name changes the word,
\* returns and throws as name::set(raw_value, value), returning a boolean
\* exactly under return_bool.
C20_Accessors == AccessorsGenerated /\ AccessorsDelegate

\* C20 happens: a set_name on an instance whose storage word is not 0
\* throws.
C20_Witness ==
    /\ Len(layout.fields) > 0
    /\ last.op = "set"
    /\ last.thrown
    /\ last.before # {}

----------------------------------------------------------------------------
(* Properties of bits.hpp *)

\* C21: bit_mask<T, start, count> is the value of T with the bits start ..
\* start + count - 1 set and every other bit of T clear.
C21_BitMask ==
    (ex.op = "bit_mask" /\ ex.done /\ ex.NSourceOffset >= 0 /\ ex.NBits > 0)
    => ex.result = Span(ex.NSourceOffset, ex.NBits)

\* C22: an extract_bits that was evaluated has at least one bit to move, a
\* source type as wide as source offset + bits and a destination type as
\* wide as destination offset + bits; every other one is rejected.
C22_Rejected ==
    (ex.op = "extract_bits" /\ ex.done)
    => /\ ex.NBits > 0
       /\ ex.NSourceOffset >= 0 /\ ex.NSourceOffset + ex.NBits <= bits(ex.TSource)
       /\ ex.NDestinationOffset >= 0 /\ ex.NDestinationOffset + ex.NBits <= bits(ex.TDestination)

----------------------------------------------------------------------------
(* Properties of the calls the library rejects *)

\* C23: no get was evaluated whose call names a strategy and no set whose
\* call names a type; a set may name an offset and a strategy.
C23_ForbiddenOverrides ==
    /\ last.op = "get" => last.TConfig.strategy = strategy_no_override
    /\ last.op = "set" => last.TConfig.type = void

\* C23 happens: a set whose call names an offset and a strategy wrote the
\* field; the same call naming the type of its value as well is rejected, and
\* so is a get of the field that names a strategy and nothing else.
C23_Witness ==
    /\ last.op = "set"
    /\ last.TConfig.offset # no_override
    /\ last.TConfig.strategy # strategy_no_override
    /\ into # last.before
    /\ ~set_ok(field, [last.TConfig EXCEPT !.type = last.TValue], TStorage, last.TValue)
    /\ get_ok(field, bit_field_config(void, no_override, strategy_no_override), TStorage)
    /\ ~get_ok(field, bit_field_config(void, no_override, mask), TStorage)

----------------------------------------------------------------------------
(* Properties of the counter macros *)

RECURSIVE CounterTotal(_, _, _)
\* the initial value of the counter called name and the amounts added to it
\* by the first i macros, added up
CounterTotal(ops, name, i) ==
    IF i = 0
    THEN 0
    ELSE CounterTotal(ops, name, i - 1) + (IF ops[i].name = name THEN ops[i].value ELSE 0)

\* the scope uses COUNTER_INITIALIZE on the counter called name once
CounterInitializedOnce(ops, name) ==
    Cardinality({i \in 1 .. Len(ops) : ops[i].op = "init" /\ ops[i].name = name}) = 1

\* C24: a counter initialized once whose initial value and added amounts
\* total at most the maximum reads, after each COUNTER_ADD on it, its initial
\* value plus all the amounts added so far, and its value never decreases.
C24_CounterValue ==
    \A n \in CounterNames :
       (CounterInitializedOnce(scope.ops, n)
           /\ CounterTotal(scope.ops, n, Len(scope.ops)) <= CounterMax)
       => \A i \in 1 .. Len(scope.ops) :
             scope.ops[i].name = n
             => /\ n \in DOMAIN scope.ops[i].values
                /\ scope.ops[i].values[n] = CounterTotal(scope.ops, n, i)
                /\ \A j \in 1 .. i :
                      n \in DOMAIN scope.ops[j].values
                      => scope.ops[j].values[n] <= scope.ops[i].values[n]

\* C25: COUNTER_ADD(name, n, max) leaves the counter called name n higher
\* than it was, and every other counter of the scope as it was.
C25_CountersIndependent ==
    \A i \in 2 .. Len(scope.ops) :
       (scope.ops[i].op = "add"
           /\ scope.ops[i - 1].values[scope.ops[i].name] + scope.ops[i].value <= CounterMax)
       => /\ scope.ops[i].values[scope.ops[i].name]
                = scope.ops[i - 1].values[scope.ops[i].name] + scope.ops[i].value
          /\ \A m \in DOMAIN scope.ops[i - 1].values :
                m # scope.ops[i].name
                => scope.ops[i].values[m] = scope.ops[i - 1].values[m]

\* the last extract_bits was the one of the tests: 2 bits at offset 1 of a
\* byte moved to offset 3 of a byte
TestCall ==
    /\ ex.op = "extract_bits" /\ ex.done
    /\ ex.NBits = 2 /\ ex.NSourceOffset = 1 /\ ex.TSource = U8
    /\ ex.TDestination = U8 /\ ex.NDestinationOffset = 3

\* C26: with skipMask, extract_bits returns every bit of the source moved by
\* destination offset - source offset that falls inside the destination
\* type; the test call turns 0b11111010 into 0b11101000 with skipMask and into
\* 0b01000 without.
C26_SkipMask ==
    /\ (/\ ex.op = "extract_bits" /\ ex.done /\ ex.BSkipMask
        /\ ex.NSourceOffset >= 0 /\ ex.NDestinationOffset >= 0)
       => ex.result = Moved(ex.source, ex.NDestinationOffset - ex.NSourceOffset) \cap AllBits(ex.TDestination)
    /\ (TestCall /\ ex.source = {1, 3, 4, 5, 6, 7})
       => ex.result = (IF ex.BSkipMask THEN {3, 5, 6, 7} ELSE {3})

----------------------------------------------------------------------------
(* Properties of two unsynchronized calls of set *)

\* both calls returned
RaceDone == \A t \in Threads : race.pc[t] = "done"

\* the thread whose write came first; the other one
FirstWriter == race.events[CHOOSE i \in 1 .. Len(race.events) :
                              /\ race.events[i].step = "write"
                              /\ \A j \in 1 .. (i - 1) : race.events[j].step = "read"].thread
SecondWriter == CHOOSE t \in Threads : t # FirstWriter

\* the calls ran one after the other: one wrote before the other read
RaceSequential == RaceDone /\ race.events[2].step = "write"

\* the calls interleaved between reading and writing: both read before
\* either wrote
RaceInterleaved == RaceDone /\ race.events[2].step = "read"

\* the field thread t wrote, its span in the storage word, and the bits the
\* field holds if it holds the value of t: the bits of the value that lie in
\* the field, where the call takes it, moved to where the field is
RaceField(t) == layout.fields[race.call[t].name]
RaceSpan(t) == Span(RaceField(t).offset, RaceField(t).bits)
RaceTaken(t) == Span(effective_offset(RaceField(t), race.call[t].TConfig), RaceField(t).bits)
RaceWritten(t) ==
    Moved(race.call[t].value \cap RaceTaken(t),
          RaceField(t).offset - effective_offset(RaceField(t), race.call[t].TConfig))

\* the field of thread t holds the value thread t wrote
RaceHolds(t) == into \cap RaceSpan(t) = RaceWritten(t)

\* the value thread t gives to a call under the unchecked strategy lies
\* inside the field, which that strategy leaves to the caller
RaceSanitized(t) ==
    effective_strategy(RaceField(t), race.call[t].TConfig) = unchecked
    => race.call[t].value \subseteq RaceTaken(t)

\* C27: for two calls whose unchecked values lie inside their fields: when
\* the two calls ran one after the other, in either order, both fields hold
\* the values written; when both read before either wrote, the field of the
\* second writer holds its value and the field of the first writer is as it
\* was before the calls: its update is lost.
C27_LostUpdate ==
    (\A t \in Threads : RaceSanitized(t))
    => /\ RaceSequential => \A t \in Threads : RaceHolds(t)
       /\ RaceInterleaved
          => /\ RaceHolds(SecondWriter)
             /\ into \cap RaceSpan(FirstWriter) = race.before \cap RaceSpan(FirstWriter)

\* C27 happens: both calls returned after interleaving, and the field of one
\* of them does not hold the value written to it.
C27_Witness ==
    /\ RaceInterleaved
    /\ ~RaceHolds(FirstWriter)
    /\ RaceHolds(SecondWriter)

----------------------------------------------------------------------------
(* Properties of get on every type *)

\* C28: for every storage type, signed ones too, and every result type, the
\* result of get is the field's bits of the value moved to the merged offset
\* and no other bit.
C28_GetExact ==
    last.op = "get"
    => last.result = Moved(last.value \cap FieldSpan, LastOffset - field.offset)

\* the configuration of the set that writes back what the last get read: the
\* offset of the get, and the strategy st
WriteBackConfig(st) == bit_field_config(void, last.TConfig.offset, st)

\* C29: set(s, get(s)) with the offset of the get leaves s as it is under
\* every strategy, return_bool returning true and exception not throwing.
C29_WriteBack ==
    last.op = "get"
    => \A st \in Strategies :
          set_ok(field, WriteBackConfig(st), TStorage, last.TResult)
          => LET r == set_impl(field, WriteBackConfig(st), TStorage, last.TResult, into, last.result)
             IN  /\ r.into = into
                 /\ r.ret # "false"
                 /\ ~r.thrown

----------------------------------------------------------------------------
(* Properties of the fields of one instance *)

\* the fields of the class other than the one of the last call
OtherFields == {i \in 1 .. Len(layout.fields) : layout.fields[i] # field}

\* the last call was a set under the mask strategy
MaskSet == last.op = "set" /\ LastStrategy = mask

\* the configuration of a call that names none: bit_field_config{}
TConfigDefault == bit_field_config(void, no_override, strategy_no_override)

\* the values of a field of n bits whose value is taken at offset lo: zero,
\* the lowest bit and every bit of the field
FieldValues(lo, n) == {{}, {lo}, lo .. (lo + n - 1)}

\* instance.get_name() on the storage word w, name the i-th field
Reads(i, w) == get_name(layout, i, TConfigDefault, TStorage, w)

\* instance.set_name(value) on the storage word w, value a byte: the word it
\* leaves
Writes(i, w, value) == set_name(layout, i, TConfigDefault, TStorage, U8, w, value).into

\* C30: under the mask strategy a set on one field of an instance leaves
\* what get returns for every other field as it was, commutes with a set on
\* any other field, and is read back by a get of the field with the same
\* offset; on the storage word 0 of a fresh instance every field reads 0.
C30_FieldsIndependent ==
    /\ MaskSet
       => /\ \A i \in OtherFields :
                get_name_ok(layout, i, TConfigDefault, TStorage)
                => Reads(i, into) = Reads(i, last.before)
          /\ \A i \in OtherFields :
                (set_name_ok(layout, i, TConfigDefault, TStorage, U8)
                    /\ effective_strategy(layout.fields[i], TConfigDefault) = mask)
                => \A w \in FieldValues(effective_offset(layout.fields[i], TConfigDefault), layout.fields[i].bits) :
                      Writes(i, into, w)
                         = set_impl(field, last.TConfig, TStorage, last.TValue,
                                    Writes(i, last.before, w), last.value).into
          /\ (ValueInRange /\ get_ok(field, ReadBackConfig, TStorage))
             => get(field, ReadBackConfig, TStorage, into) = {last.value}
    /\ (last.op = "get" /\ last.before = {}) => last.result = {}

====
